---- MODULE Spec2Model ----
(***************************************************************************)
(* YoutubeAudioDownloader: the command line downloader (yt_downloader.py), *)
(* the MIDI batch converter (audio_to_midi.py) and their helpers.          *)
(*                                                                         *)
(* download_youtube_video is read as the one function that the fragments   *)
(* of yt_downloader.py lines 153-353 make up in textual order: archive     *)
(* load, Transcoder check, output directory, list-formats, format policy,  *)
(* retry loop.  The Transcoder check is guarded by the condition written   *)
(* at line 170, audio_format in ('wav', 'mp3'); the name wav_only of line  *)
(* 174 is the flag that condition replaced and is no parameter.            *)
(* output_template is modelled at its default (None).                      *)
(***************************************************************************)
EXTENDS Integers, Sequences, FiniteSets, TLC

(* ------------------------------------------------------------------ *)
(* Bounds of the model                                                  *)
(* ------------------------------------------------------------------ *)
MaxRuns == 2
MaxItems == 3

(* ------------------------------------------------------------------ *)
(* Program constants                                                    *)
(* ------------------------------------------------------------------ *)
max_retries == 3
IdLen == 11
BackoffFactor == 2

(* ------------------------------------------------------------------ *)
(* Text: strings are sequences of one-character strings                 *)
(* ------------------------------------------------------------------ *)
Letters ==
  {"a","b","c","d","e","f","g","h","i","j","k","l","m","n","o","p","q","r","s","t","u","v","w","x","y","z",
   "A","B","C","D","E","F","G","H","I","J","K","L","M","N","O","P","Q","R","S","T","U","V","W","X","Y","Z"}

Digits == {"0","1","2","3","4","5","6","7","8","9"}

\* the character class [\w-] of the identifier pattern
IdChars == Letters \cup Digits \cup {"_", "-"}

Whitespace == {" ", "\t", "\r", "\n"}

UrlWatch ==
  <<"h","t","t","p","s",":","/","/","w","w","w",".","y","o","u","t","u","b","e",".","c","o","m","/",
    "w","a","t","c","h","?","v","=","A","A","A","A","A","A","A","A","A","A","A">>

UrlPlaylist ==
  <<"h","t","t","p","s",":","/","/","w","w","w",".","y","o","u","t","u","b","e",".","c","o","m","/",
    "p","l","a","y","l","i","s","t","?","l","i","s","t","=",
    "P","L","C","C","C","C","C","C","C","C","C","C","C","C","C","C">>

UrlNoCookie ==
  <<"h","t","t","p","s",":","/","/","w","w","w",".","y","o","u","t","u","b","e","-","n","o","c","o","o","k","i","e",
    ".","c","o","m","/","e","m","b","e","d","/","A","A","A","A","A","A","A","A","A","A","A">>

UrlOther ==
  <<"h","t","t","p","s",":","/","/","v","i","m","e","o",".","c","o","m","/","1","2","3","4","5">>

IdA == <<"A","A","A","A","A","A","A","A","A","A","A">>

IdPlaylist == <<"P","L","C","C","C","C","C","C","C","C","C","C","C","C","C","C">>

IdOther == <<"1","2","3","4","5">>

\* " AAAAAAAAAAA " : an archive line with surrounding blanks
PaddedIdA == <<" ">> \o IdA \o <<" ">>

NoneVal == <<"<", "N", "o", "n", "e", ">">>

\* s[i..i+n-1] when it lies inside s
SubAt(s, i, n) == SubSeq(s, i, i + n - 1)

StartsAt(s, i, p) ==
  /\ i + Len(p) - 1 <= Len(s)
  /\ \A k \in 1..Len(p) : s[i + k - 1] = p[k]

AllIdChars(s) == \A k \in 1..Len(s) : s[k] \in IdChars

\* the alternatives of the optional group, in the order of the pattern
IdPrefixes ==
  << <<"v","=">>, <<"b","e","/">>, <<"e","m","b","e","d","/">>,
     <<"s","h","o","r","t","s","/">>, <<"l","i","s","t","=">> >>

\* [\w-]{11} at position i
TokenAt(s, i) == i + IdLen - 1 <= Len(s) /\ AllIdChars(SubAt(s, i, IdLen))

\* the match of (?:v=|be/|embed/|shorts/|list=)?([\w-]{11}) that starts at
\* position i: the first alternative after which the token matches, else the
\* token alone; NoneVal when nothing matches at i
MatchAt(s, i) ==
  LET ok == { k \in 1..Len(IdPrefixes) :
                StartsAt(s, i, IdPrefixes[k]) /\ TokenAt(s, i + Len(IdPrefixes[k])) }
  IN  IF ok # {}
        THEN LET k == CHOOSE x \in ok : \A y \in ok : x <= y
             IN  SubAt(s, i + Len(IdPrefixes[k]), IdLen)
        ELSE IF TokenAt(s, i) THEN SubAt(s, i, IdLen) ELSE NoneVal

\* re.search(...).group(1): the leftmost match; NoneVal when there is none
ExtractVideoId(url) ==
  LET hits == { i \in 1..Len(url) : MatchAt(url, i) # NoneVal }
  IN  IF hits = {} THEN NoneVal
      ELSE MatchAt(url, CHOOSE i \in hits : \A j \in hits : i <= j)

RECURSIVE LStrip(_)
LStrip(s) == IF s # <<>> /\ Head(s) \in Whitespace THEN LStrip(Tail(s)) ELSE s

RECURSIVE RStrip(_)
RStrip(s) ==
  IF s # <<>> /\ s[Len(s)] \in Whitespace THEN RStrip(SubSeq(s, 1, Len(s) - 1)) ELSE s

\* str.strip()
Strip(s) == RStrip(LStrip(s))

\* the set built by the archive load: one stripped element per line
LoadArchive(lines) == { Strip(lines[k]) : k \in 1..Len(lines) }

\* the identifier the provider reports for the item behind a URL
ProviderId(url) ==
  CASE url = UrlWatch    -> IdA
    [] url = UrlNoCookie -> IdA
    [] url = UrlPlaylist -> IdPlaylist
    [] OTHER             -> IdOther


(* ------------------------------------------------------------------ *)
(* Error texts and their classification                                 *)
(* ------------------------------------------------------------------ *)
ErrBlocked ==
  <<"S","i","g","n","a","t","u","r","e"," ","e","x","t","r","a","c","t","i","o","n"," ","f","a","i","l","e","d">>

ErrOther == <<"V","i","d","e","o"," ","u","n","a","v","a","i","l","a","b","l","e">>

\* str(e) of an exception of mutagen
ErrTagWrite == <<"c","a","n","'","t"," ","s","y","n","c"," ","t","o"," ","M","P","E","G"," ","f","r","a","m","e">>

FieldTitle == <<"t","i","t","l","e">>

FieldExt == <<"e","x","t">>

\* str(KeyError(field))
KeyErrorText(field) == <<"'">> \o field \o <<"'">>

ArchivePlain == <<"s","e","e","n",".","t","x","t">>

ArchiveSsap == <<"s","s","a","p",".","t","x","t">>

\* str(PermissionError) of a failed open(download_archive, 'a')
AppendErrorText(path) ==
  <<"[","E","r","r","n","o"," ","1","3","]"," ","P","e","r","m","i","s","s","i","o","n"," ",
    "d","e","n","i","e","d",":"," ","'">> \o path \o <<"'">>

ToLower(c) ==
  CASE c = "A" -> "a" [] c = "B" -> "b" [] c = "C" -> "c" [] c = "D" -> "d" [] c = "E" -> "e" [] c = "F" -> "f"
    [] c = "G" -> "g" [] c = "H" -> "h" [] c = "I" -> "i" [] c = "J" -> "j" [] c = "K" -> "k" [] c = "L" -> "l"
    [] c = "M" -> "m" [] c = "N" -> "n" [] c = "O" -> "o" [] c = "P" -> "p" [] c = "Q" -> "q" [] c = "R" -> "r"
    [] c = "S" -> "s" [] c = "T" -> "t" [] c = "U" -> "u" [] c = "V" -> "v" [] c = "W" -> "w" [] c = "X" -> "x"
    [] c = "Y" -> "y" [] c = "Z" -> "z"
    [] OTHER -> c

\* str.lower()
Lower(s) == [k \in 1..Len(s) |-> ToLower(s[k])]

\* phrase in s
Contains(s, phrase) == \E i \in 1..Len(s) : StartsAt(s, i, phrase)

BlockingPhrases ==
  { <<"s","s","a","p">>,
    <<"s","i","g","n","a","t","u","r","e"," ","e","x","t","r","a","c","t","i","o","n">>,
    <<"n","s","i","g"," ","e","x","t","r","a","c","t","i","o","n">>,
    <<"f","r","a","g","m","e","n","t"," ","n","o","t"," ","f","o","u","n","d">>,
    <<"d","o","w","n","l","o","a","d","e","d"," ","f","i","l","e"," ","i","s"," ","e","m","p","t","y">>,
    <<"f","o","r","m","a","t","s"," ","h","a","v","e"," ","b","e","e","n"," ","s","k","i","p","p","e","d">>,
    <<"m","i","s","s","i","n","g"," ","a"," ","u","r","l">> }

\* any(phrase in error_msg for phrase in [...]) on the lowered text
AnyPhraseIn(msg) == \E phrase \in BlockingPhrases : Contains(msg, phrase)

is_youtube_blocking(msg) == AnyPhraseIn(Lower(msg))

\* the texts an exception of one attempt can carry in this model
ErrorTexts ==
  { ErrBlocked, ErrOther, ErrTagWrite, KeyErrorText(FieldTitle), KeyErrorText(FieldExt),
    AppendErrorText(ArchivePlain), AppendErrorText(ArchiveSsap) }

\* the texts of ErrorTexts the except clause classifies as blocking
BlockingTexts == { t \in ErrorTexts : is_youtube_blocking(t) }

\* a backoff that does not grow with the attempt
wait_time_flat(att) == BackoffFactor

\* time.sleep argument of the retry branch
wait_time(att) == att * BackoffFactor

\* a retry of every failure while attempts remain
RetryDecisionAnyError(msg, att) ==
  IF att < max_retries THEN "retry"
  ELSE IF msg \in BlockingTexts THEN "exhausted"
  ELSE "error"

\* a retry branch guarded by attempt <= max_retries
RetryDecisionOneMore(msg, att) ==
  IF msg \in BlockingTexts /\ att <= max_retries THEN "retry" ELSE "error"

\* the three branches of the except clause: "retry", "exhausted", "error"
RetryDecision(msg, att) ==
  IF msg \in BlockingTexts /\ att < max_retries THEN "retry"
  ELSE IF msg \in BlockingTexts /\ att = max_retries THEN "exhausted"
  ELSE "error"

(* ------------------------------------------------------------------ *)
(* Events recorded in the history variables                            *)
(* ------------------------------------------------------------------ *)
E(ev, n) == [ev |-> ev, n |-> n]

Count(seq, ev) == Cardinality({ k \in 1..Len(seq) : seq[k].ev = ev })

Has(seq, ev) == \E k \in 1..Len(seq) : seq[k].ev = ev

\* position of the first event ev in seq, 0 when there is none
FirstPos(seq, ev) ==
  IF Has(seq, ev) THEN CHOOSE k \in 1..Len(seq) :
                         seq[k].ev = ev /\ \A j \in 1..(k - 1) : seq[j].ev # ev
  ELSE 0

(* ------------------------------------------------------------------ *)
(* Transcoder resolution                                                *)
(* ------------------------------------------------------------------ *)
\* what the file system holds at a user-supplied --ffmpeg-path
NoPath ==
  [given |-> FALSE, isfile |-> FALSE, isdir |-> FALSE, xok |-> FALSE, dotexe |-> FALSE,
   dirHasExe |-> FALSE, whichOk |-> FALSE]

GoodFile == [NoPath EXCEPT !.given = TRUE, !.isfile = TRUE, !.dotexe = TRUE]

GoodDir == [NoPath EXCEPT !.given = TRUE, !.isdir = TRUE, !.dirHasExe = TRUE]

MissingPath == [NoPath EXCEPT !.given = TRUE]

FfmpegPaths == {NoPath, GoodFile, GoodDir, MissingPath}

\* [ok, events]: the result and the sources consulted
check_ffmpeg(ffmpeg_path, onpath) ==
  IF ffmpeg_path.given
    THEN IF ffmpeg_path.isfile
           THEN [ok |-> ffmpeg_path.xok \/ ffmpeg_path.dotexe, events |-> <<E("explicit", 0)>>]
         ELSE IF ffmpeg_path.isdir /\ ffmpeg_path.dirHasExe
           THEN [ok |-> TRUE, events |-> <<E("explicit", 0)>>]
         ELSE [ok |-> ffmpeg_path.whichOk,
               events |-> <<E("explicit", 0), E("which_given", 0)>>]
    ELSE [ok |-> onpath, events |-> <<E("search_path", 0)>>]

\* the local cache next to the script: exe is ffmpeg/bin/ffmpeg.exe, dir is
\* the folder ffmpeg, zip is ffmpeg-release-essentials.zip
CacheStates == [exe : BOOLEAN, dir : BOOLEAN, zip : BOOLEAN]

get_local_ffmpeg_path(c) == c.exe

\* a bootstrap without the check for an earlier download
already_downloaded_never(c) == FALSE

\* download_ffmpeg: "Check if already downloaded"
already_downloaded(c) == c.exe

\* the outcomes of download_ffmpeg(): [ret, cache, events]; ret is TRUE
\* when a location is returned and FALSE for None
download_ffmpeg(c) ==
  IF already_downloaded(c)
    THEN { [ret |-> TRUE, cache |-> c,
            events |-> <<E("bootstrap", 0), E("bootstrap_path", 0)>>] }
    ELSE
      LET evs == <<E("bootstrap", 0), E("net_download", 0)>>
          none == Append(evs, E("bootstrap_none", 0))
      IN  \* urlretrieve or extractall raises: the zip is removed
          { [ret |-> FALSE, cache |-> [c EXCEPT !.zip = FALSE], events |-> none] }
          \cup
          \* no extracted folder is found: None, the zip stays
          { [ret |-> FALSE, cache |-> [c EXCEPT !.zip = TRUE], events |-> none] }
          \cup
          \* a folder is found and renamed to ffmpeg
          ( IF c.dir
              THEN \* rename onto an existing folder raises: the zip is removed
                   { [ret |-> FALSE, cache |-> [c EXCEPT !.zip = FALSE], events |-> none] }
              ELSE { [ret |-> TRUE,
                      cache |-> [exe |-> hasExe, dir |-> TRUE, zip |-> FALSE],
                      events |-> Append(evs, E("bootstrap_path", 0))] :
                        hasExe \in BOOLEAN } )

\* lines 177-205 (and their twin, lines 395-419): local cache, then the
\* prompt and the bootstrap; [resolved, events, cache]
LocalOrBootstrap(auto_download_ffmpeg, c, events) ==
  LET evc == Append(events, E("local_cache", 0))
  IN  IF get_local_ffmpeg_path(c)
        THEN { [resolved |-> TRUE, events |-> Append(evc, E("cache_found", 0)), cache |-> c] }
      ELSE IF auto_download_ffmpeg
        THEN LET evp == Append(evc, E("prompt", 0))
             IN  \* response other than 'y'
                 { [resolved |-> FALSE, events |-> evp, cache |-> c] }
                 \cup
                 { [resolved |-> d.ret, events |-> evp \o d.events, cache |-> d.cache] :
                     d \in download_ffmpeg(c) }
      ELSE { [resolved |-> FALSE, events |-> evc, cache |-> c] }

\* a Transcoder check whose failure branches do not return
EnsureFfmpegNoReturn(ffmpeg_path, auto_download_ffmpeg, onpath, c) ==
  LET chk == check_ffmpeg(ffmpeg_path, onpath)
  IN  IF chk.ok
        THEN { [resolved |-> TRUE, events |-> chk.events, cache |-> c] }
        ELSE { [r EXCEPT !.resolved = TRUE] :
                 r \in LocalOrBootstrap(auto_download_ffmpeg, c, chk.events) }

\* the Transcoder check of download_youtube_video
EnsureFfmpeg(ffmpeg_path, auto_download_ffmpeg, onpath, c) ==
  LET chk == check_ffmpeg(ffmpeg_path, onpath)
  IN  IF chk.ok
        THEN { [resolved |-> TRUE, events |-> chk.events, cache |-> c] }
        ELSE LocalOrBootstrap(auto_download_ffmpeg, c, chk.events)

\* convert_local_file_to_wav: ffmpeg_cmd is set from the supplied path
explicit_cmd(ffmpeg_path) ==
  ffmpeg_path.given /\
    (ffmpeg_path.isfile \/ (ffmpeg_path.isdir /\ ffmpeg_path.dirHasExe))

\* the Transcoder check of convert_local_file_to_wav
EnsureFfmpegLocal(ffmpeg_path, auto_download_ffmpeg, onpath, c) ==
  LET explicit == explicit_cmd(ffmpeg_path)
      ev1 == IF ffmpeg_path.given THEN <<E("explicit", 0)>> ELSE <<>>
      ev2 == Append(ev1, E("search_path", 0))
  IN  IF explicit
        THEN { [resolved |-> TRUE, events |-> ev1, cache |-> c] }
      ELSE IF onpath
        THEN { [resolved |-> TRUE, events |-> ev2, cache |-> c] }
      ELSE LocalOrBootstrap(auto_download_ffmpeg, c, ev2)



(* ------------------------------------------------------------------ *)
(* yt_downloader.py: main and download_youtube_video                    *)
(* ------------------------------------------------------------------ *)
\* main: audio_format from --wav and --mp3
AudioFormatOf(wav, mp3) == IF wav THEN "wav" ELSE IF mp3 THEN "mp3" ELSE "none"

\* main: the arguments download_youtube_video is called with
JobParams(a) ==
  IF a.list_formats
    THEN [url |-> a.url, audio_format |-> "none", ffmpeg_path |-> a.ffmpeg_path,
          auto_download_ffmpeg |-> a.auto_download_ffmpeg, download_archive |-> NoneVal,
          best_native |-> FALSE, list_formats |-> TRUE]
    ELSE [url |-> a.url, audio_format |-> AudioFormatOf(a.wav, a.mp3),
          ffmpeg_path |-> a.ffmpeg_path,
          auto_download_ffmpeg |-> a.auto_download_ffmpeg,
          download_archive |-> a.download_archive,
          best_native |-> a.best_native, list_formats |-> FALSE]

\* the guard of the Transcoder check
needs_ffmpeg(audio_format) == audio_format \in {"wav", "mp3"}

\* the guard of the tagging step
is_tagged_format(audio_format) == audio_format \in {"mp3", "wav"}

\* the fields of the info dict the job and the tagger read: TRUE when the
\* provider supplied the field (uploader stands for artist or uploader,
\* album for album or playlist_title)
Infos ==
  [id : BOOLEAN, title : BOOLEAN, ext : BOOLEAN, uploader : BOOLEAN, album : BOOLEAN,
   thumbnail : BOOLEAN]

\* where mutagen or the cover download fails in one call of the tagger:
\* nowhere, opening the file, audio.save(), the cover art block
TagFaults == {"none", "open", "save", "cover"}

\* audio['title'], audio['artist'], audio['album'] for the fields present
TextTags(info) ==
  (IF info.title THEN <<E("text_title", 0)>> ELSE <<>>)
    \o (IF info.uploader THEN <<E("text_artist", 0)>> ELSE <<>>)
    \o (IF info.album THEN <<E("text_album", 0)>> ELSE <<>>)

\* a tagger whose outer try is missing
tag_audio_metadata_uncaught(audio_format, info, fault) ==
  IF audio_format \in {"mp3", "wav"} /\ fault \in {"open", "save"}
    THEN [raised |-> TRUE, events |-> <<>>]
  ELSE IF audio_format = "mp3"
    THEN [raised |-> FALSE,
          events |-> TextTags(info) \o <<E("text_saved", 0)>> \o
                     (IF ~info.thumbnail THEN <<>>
                      ELSE IF fault = "cover" THEN <<E("cover_failed", 0)>>
                      ELSE <<E("cover_saved", 0)>>)]
  ELSE IF audio_format = "wav"
    THEN [raised |-> FALSE, events |-> TextTags(info) \o <<E("text_saved", 0)>>]
  ELSE [raised |-> FALSE, events |-> <<>>]

\* tag_audio_metadata(filepath, info, audio_format): [raised, events]
tag_audio_metadata(audio_format, info, fault) ==
  IF audio_format = "mp3"
    THEN IF fault \in {"open", "save"}
           \* EasyID3(filepath) or audio.save() raises: except Exception, [WARN]
           THEN [raised |-> FALSE, events |-> <<E("tag_warn", 0)>>]
           ELSE [raised |-> FALSE,
                 events |-> TextTags(info) \o <<E("text_saved", 0)>> \o
                            \* the inner try: except Exception: pass
                            (IF ~info.thumbnail THEN <<>>
                             ELSE IF fault = "cover" THEN <<E("cover_failed", 0)>>
                             ELSE <<E("cover_saved", 0)>>)]
  ELSE IF audio_format = "wav"
    THEN IF fault \in {"open", "save"}
           THEN [raised |-> FALSE, events |-> <<E("tag_warn", 0)>>]
           ELSE [raised |-> FALSE, events |-> TextTags(info) \o <<E("text_saved", 0)>>]
  ELSE [raised |-> FALSE, events |-> <<>>]

\* the if/elif chain that fills ydl_opts
FormatPolicy(p) ==
  IF p.list_formats THEN "list"
  ELSE IF p.best_native THEN "best_native"
  ELSE IF p.audio_format = "wav" THEN "wav"
  ELSE IF p.audio_format = "mp3" THEN "mp3"
  ELSE "video"

\* the job up to the retry loop: archive load, Transcoder check, output
\* directory, list-formats; the set of
\* [pc, outcome, consulted, events, cache, ids, policy]
JobStart(p, file, onpath, c) ==
  LET loads == p.download_archive # NoneVal /\ file.exists
      ids == IF loads THEN LoadArchive(file.lines) ELSE {}
      ev0 == IF loads THEN <<E("archive_load", 0)>> ELSE <<>>
      Ret(o, cons, evs, cc, pol) ==
        [pc |-> "returned", outcome |-> o, consulted |-> cons, events |-> evs,
         cache |-> cc, ids |-> ids, policy |-> pol]
      resolutions ==
        IF needs_ffmpeg(p.audio_format)
          THEN EnsureFfmpeg(p.ffmpeg_path, p.auto_download_ffmpeg, onpath, c)
          ELSE { [resolved |-> TRUE, events |-> <<>>, cache |-> c] }
      After(r) ==
        LET ev2 == Append(ev0, E("makedirs", 0))
        IN  IF ~r.resolved
              THEN { Ret("failure", r.events, Append(ev0, E("no_ffmpeg", 0)), r.cache, "none") }
              ELSE \* os.makedirs raises
                   { Ret("raised", r.events, ev2, r.cache, "none") }
                   \cup
                   ( IF p.list_formats
                       THEN { Ret(o, r.events, Append(ev2, E("list_formats", 0)), r.cache, "list") :
                                o \in {"success", "raised"} }
                       ELSE { [pc |-> "loop", outcome |-> "none", consulted |-> r.events,
                               events |-> ev2, cache |-> r.cache, ids |-> ids,
                               policy |-> FormatPolicy(p)] } )
  IN  \* open(download_archive, 'r') or the decoding of a line raises
      (IF loads THEN { [Ret("raised", <<>>, ev0, c, "none") EXCEPT !.ids = {}] } ELSE {})
      \cup UNION { After(r) : r \in resolutions }

(* ------------------------------------------------------------------ *)
(* State                                                                *)
(* ------------------------------------------------------------------ *)
VARIABLES
  prog,            \* what runs: yt_downloader.py as "download" or "local" (--local),
                   \* download_ffmpeg alone as "bootstrap", audio_to_midi.py as
                   \* "midi", the Download button of vid.py as "gui"
  pc,              \* position of the script
  args,            \* the parsed command line
  run,             \* number of the process run against the same disk
  onPath,          \* shutil.which("ffmpeg") finds the tool
  cache,           \* the local Transcoder cache on disk
  archiveFile,     \* the archive file on disk: [exists, lines]
  downloaded_ids,  \* the set loaded from the archive
  attempt,         \* loop variable of the retry loop
  policy,          \* the format policy applied by the job
  produced,        \* extract_info returned: the provider has written a file
  outcome,         \* "none", "success" (True), "failure" (False), "raised"
  error_msg,       \* str(e) of the latest except clause of the retry loop
  exitCode,        \* -1 while the process runs
  consulted,       \* history: the Transcoder sources consulted in this run
  calls,           \* history: number of extract_info calls of this run
  waits,           \* history: the time.sleep durations of this run
  last,            \* history: the events of the latest step of this run
  prev,            \* history: summary of the previous run
  exeAtStart,      \* history: ffmpeg/bin/ffmpeg.exe existed when this run started
  outFile,         \* the target .wav of a local conversion: "none", "old" (there
                   \* before the first run), "new" (written by ffmpeg)
  idx,             \* batch_convert: index of the next input path
  successful,      \* batch_convert: counter
  failed,          \* batch_convert: counter
  results          \* history: what convert_audio_to_midi returned, per path

vars ==
  << prog, pc, args, run, onPath, cache, archiveFile, downloaded_ids, attempt, policy,
     produced, outcome, error_msg, exitCode, consulted, calls, waits, last, prev, exeAtStart,
     outFile, idx, successful,
     failed, results >>

Urls == {UrlWatch, UrlPlaylist, UrlNoCookie, UrlOther}

ArchivePaths == {ArchivePlain, ArchiveSsap}

\* archive files a run can find: none, one written by an earlier run, one
\* edited by hand (a blank line, an identifier with blanks around it)
ArchiveFiles ==
  { [exists |-> FALSE, lines |-> <<>>],
    [exists |-> TRUE, lines |-> <<IdA>>],
    [exists |-> TRUE, lines |-> << <<>>, PaddedIdA >>] }

\* status of an input path: a regular file, a directory, nothing
PathKinds == {"file", "dir", "missing"}

NoArgs ==
  [url |-> NoneVal, wav |-> FALSE, mp3 |-> FALSE, best_native |-> FALSE,
   list_formats |-> FALSE, download_archive |-> NoneVal, ffmpeg_path |-> NoPath,
   auto_download_ffmpeg |-> TRUE, local |-> "none", audio_files |-> <<>>,
   video_urls |-> <<>>, tag_format |-> "none", answer |-> <<"n">>,
   info |-> [id |-> TRUE, title |-> TRUE, ext |-> TRUE, uploader |-> TRUE,
             album |-> TRUE, thumbnail |-> TRUE]]

\* a job that runs no Transcoder check reads none of --ffmpeg-path,
\* auto_download_ffmpeg, PATH and the cache
DownloadArgs ==
  { a \in { [NoArgs EXCEPT !.url = u, !.wav = w, !.mp3 = m, !.best_native = b,
                           !.list_formats = l, !.download_archive = ar,
                           !.ffmpeg_path = f, !.auto_download_ffmpeg = d] :
              u \in Urls, w \in BOOLEAN, m \in BOOLEAN, b \in BOOLEAN, l \in BOOLEAN,
              ar \in ArchivePaths \cup {NoneVal}, f \in FfmpegPaths, d \in BOOLEAN } :
      needs_ffmpeg(JobParams(a).audio_format)
        \/ (a.ffmpeg_path = NoPath /\ a.auto_download_ffmpeg) }

\* lines typed at the prompt "Overwrite? (y/n): "
Answers == { <<"y">>, <<"Y", " ">>, <<"n">>, <<>> }

\* a conversion that returns at the validation of its input reads no answer
LocalArgs ==
  { a \in { [NoArgs EXCEPT !.local = k, !.ffmpeg_path = f, !.auto_download_ffmpeg = d,
                           !.answer = w] :
              k \in PathKinds, f \in FfmpegPaths, d \in BOOLEAN, w \in Answers } :
      a.local = "file" \/ a.answer = <<"n">> }

RECURSIVE SeqsUpTo(_, _)
SeqsUpTo(S, n) ==
  IF n = 0 THEN { <<>> }
  ELSE LET shorter == SeqsUpTo(S, n - 1)
       IN  shorter \cup { Append(q, x) : q \in { r \in shorter : Len(r) = n - 1 }, x \in S }

\* audio_files is nargs='+': at least one path
MidiArgs ==
  { [NoArgs EXCEPT !.audio_files = q] : q \in SeqsUpTo(PathKinds, MaxItems) \ { <<>> } }

\* the entry holds 1 to MaxItems URLs separated by ", "
GuiArgs ==
  { [NoArgs EXCEPT !.video_urls = q] : q \in SeqsUpTo({"url"}, MaxItems) \ { <<>> } }

\* tag_audio_metadata called on its own: any format, any subset of the
\* fields it reads
TagArgs ==
  { [NoArgs EXCEPT !.tag_format = f, !.info = i] :
      f \in {"mp3", "wav", "m4a"},
      i \in { x \in Infos : x.id /\ x.ext } }

EmptyCache == [exe |-> FALSE, dir |-> FALSE, zip |-> FALSE]

ReadsTranscoder(pr, a) ==
  pr = "local" \/ (pr = "download" /\ needs_ffmpeg(JobParams(a).audio_format))

\* the Transcoder check of the run goes on to the cache and the bootstrap
ReadsCache(pr, a, onpath) ==
  /\ ReadsTranscoder(pr, a)
  /\ IF pr = "local" THEN ~explicit_cmd(a.ffmpeg_path) /\ ~onpath
                     ELSE ~check_ffmpeg(a.ffmpeg_path, onpath).ok

\* an archive path and the file at it when the first run starts
ArchiveSetups ==
  { <<NoneVal, [exists |-> FALSE, lines |-> <<>>]>>,
    <<ArchiveSsap, [exists |-> FALSE, lines |-> <<>>]>> }
  \cup { <<ArchivePlain, f>> : f \in ArchiveFiles }

NoPrev == [outcome |-> "none", produced |-> FALSE, downloaded |-> FALSE, appended |-> {}]

Init ==
  /\ prog \in {"download", "local", "bootstrap", "tag", "midi", "gui"}
  /\ args \in (CASE prog = "download"  -> DownloadArgs
                 [] prog = "local"     -> LocalArgs
                 [] prog = "bootstrap" -> {NoArgs}
                 [] prog = "tag"       -> TagArgs
                 [] prog = "midi"      -> MidiArgs
                 [] OTHER              -> GuiArgs)
  /\ pc = "start"
  /\ run = 1
  /\ onPath \in (IF ReadsTranscoder(prog, args) THEN BOOLEAN ELSE {FALSE})
  \* inputs the run never reads are held at one value
  /\ cache \in (IF prog = "bootstrap"
                  THEN { c \in CacheStates : c.exe => c.dir }
                ELSE IF ReadsCache(prog, args, onPath)
                  THEN { [exe |-> x, dir |-> x, zip |-> FALSE] : x \in BOOLEAN }
                ELSE {EmptyCache})
  /\ ReadsCache(prog, args, onPath) \/ args.auto_download_ffmpeg
  /\ archiveFile \in { f \in ArchiveFiles : <<args.download_archive, f>> \in ArchiveSetups }
  /\ downloaded_ids = {}
  /\ attempt = 0
  /\ policy = "none"
  /\ produced = FALSE
  /\ outcome = "none"
  /\ error_msg = NoneVal
  /\ exitCode = -1
  /\ consulted = <<>>
  /\ calls = 0
  /\ waits = <<>>
  /\ last = <<>>
  /\ prev = NoPrev
  /\ exeAtStart = cache.exe
  /\ outFile \in (IF prog = "local" /\ args.local = "file" THEN {"none", "old"}
                  ELSE {"none"})
  /\ idx = 0
  /\ successful = 0
  /\ failed = 0
  /\ results = <<>>

\* video_id for each URL of the model
\* extract_video_id on each url of the runs, computed once
VideoIdPairs == { <<u, ExtractVideoId(u)>> : u \in Urls }

VideoIdOf == [u \in Urls |-> (CHOOSE pr \in VideoIdPairs : pr[1] = u)[2]]

\* the archive pre-check at the head of the loop body
ArchiveSkips(p, ids) ==
  /\ p.download_archive # NoneVal
  /\ VideoIdOf[p.url] # NoneVal
  /\ VideoIdOf[p.url] \in ids

\* a write that opens the file with mode 'w'
ArchiveAppendTruncating(file, id) == [exists |-> TRUE, lines |-> <<id>>]

\* an append that never reaches the file
ArchiveAppendUnflushed(file, id) == file

\* with open(download_archive, 'a') as f: f.write(id + '\n'); the with
\* block closes the file
ArchiveAppend(file, id) == [exists |-> TRUE, lines |-> Append(file.lines, id)]

\* the statements after extract_info returned info: the set of
\* [kind, events, file, text], kind "return_true" or "exception"
PostFetch(p, info, file, att) ==
  LET ev0 == <<E("fetch", att), E("fetched", att)>>
      Exc(evs, f, t) == [kind |-> "exception", events |-> evs, file |-> f, text |-> t]
      \* outtmpl % info with outtmpl '%(title)s.%(ext)s'
      pathError == is_tagged_format(p.audio_format) /\ (~info.title \/ ~info.ext)
      missing == IF ~info.title THEN FieldTitle ELSE FieldExt
      \* the calls of tag_audio_metadata for this info
      tagged == { tag_audio_metadata(p.audio_format, info, f) : f \in TagFaults }
      \* os.path.exists(filename) is False, or the tagger returns
      afterTag ==
        IF is_tagged_format(p.audio_format)
          THEN { ev0 } \cup
               { ev0 \o <<E("tag", att)>> \o
                   (IF Has(r.events, "tag_warn") THEN <<E("tag_warn", att)>> ELSE <<>>) :
                   r \in { t \in tagged : ~t.raised } }
          ELSE { ev0 }
      \* an exception of the tagger would be one of the try block
      tagRaised ==
        IF is_tagged_format(p.audio_format) /\ \E t \in tagged : t.raised
          THEN { Exc(ev0 \o <<E("tag", att), E("tag_raised", att)>>, file, ErrTagWrite) }
          ELSE {}
      \* if download_archive and 'id' in info: the append, or open raises
      Archive(evs) ==
        IF p.download_archive # NoneVal /\ info.id
          THEN { [kind |-> "return_true", events |-> Append(evs, E("append", att)),
                  file |-> ArchiveAppend(file, ProviderId(p.url)),
                  text |-> NoneVal],
                 Exc(Append(evs, E("append_failed", att)), file,
                     AppendErrorText(p.download_archive)) }
        ELSE IF p.download_archive # NoneVal
          THEN { [kind |-> "return_true", events |-> Append(evs, E("no_id", att)),
                  file |-> file, text |-> NoneVal] }
          ELSE { [kind |-> "return_true", events |-> evs, file |-> file, text |-> NoneVal] }
  IN  IF pathError
        THEN { Exc(Append(ev0, E("path_error", att)), file, KeyErrorText(missing)) }
        ELSE tagRaised \cup UNION { Archive(evs) : evs \in afterTag }

\* a loop whose pre-check takes an item that failed once for a done one
JobAttemptSkipOnRetry(p, ids, att, file) ==
  IF att > 1 \/ ArchiveSkips(p, ids)
    THEN { [kind |-> "skip", events |-> <<>>, file |-> file,
            produced |-> FALSE, text |-> NoneVal] }
    ELSE { [kind |-> "exception", events |-> <<E("fetch", att), E("fetch_failed", att)>>,
            file |-> file, produced |-> FALSE, text |-> ErrBlocked] }

\* the info dictionaries extract_info hands to the job: uploader and album are
\* read by the tagger alone, and the job keeps of the tagger's call only
\* whether it returned, warned or raised, so both are present here
JobInfos == { i \in Infos : i.uploader /\ i.album }

\* one iteration of the retry loop up to its return or its except clause:
\* the set of [kind, events, file, produced, text]
JobAttempt(p, ids, att, file) ==
  IF ArchiveSkips(p, ids)
    THEN { [kind |-> "skip", events |-> <<>>, file |-> file,
            produced |-> FALSE, text |-> NoneVal] }
    ELSE { [kind |-> "exception", events |-> <<E("fetch", att), E("fetch_failed", att)>>,
            file |-> file, produced |-> FALSE, text |-> t] : t \in {ErrBlocked, ErrOther} }
         \cup
         { [kind |-> r.kind, events |-> r.events, file |-> r.file, produced |-> TRUE,
            text |-> r.text] :
             r \in UNION { PostFetch(p, info, file, att) : info \in JobInfos } }

\* an exit status that ignores the result of the job
MainExitZero(a, o) == IF o = "raised" THEN 1 ELSE 0

\* sys.exit of main
MainExit(a, o) ==
  IF o = "raised" THEN 1
  ELSE IF a.list_formats THEN 0
  ELSE IF o = "success" THEN 0 ELSE 1

StartJob ==
  /\ prog = "download" /\ pc = "start"
  /\ \E r \in JobStart(JobParams(args), archiveFile, onPath, cache) :
       /\ pc' = r.pc
       /\ outcome' = r.outcome
       /\ consulted' = r.consulted
       /\ last' = r.events
       /\ cache' = r.cache
       /\ downloaded_ids' = r.ids
       /\ policy' = r.policy
       /\ attempt' = IF r.pc = "loop" THEN 1 ELSE attempt
  /\ UNCHANGED << prog, args, run, onPath, archiveFile, produced, error_msg, exitCode, calls, waits,
                  prev, exeAtStart, outFile, idx, successful, failed, results >>

Attempt ==
  /\ prog = "download" /\ pc = "loop"
  /\ \E r \in JobAttempt(JobParams(args), downloaded_ids, attempt, archiveFile) :
       LET d == IF r.kind = "exception" THEN RetryDecision(r.text, attempt) ELSE r.kind
       IN  /\ archiveFile' = r.file
           /\ error_msg' = r.text
           /\ produced' = (produced \/ r.produced)
           /\ calls' = IF r.kind = "skip" THEN calls ELSE calls + 1
           /\ IF d = "retry"
                THEN /\ last' = Append(r.events, E("wait", wait_time(attempt)))
                     /\ waits' = Append(waits, wait_time(attempt))
                     /\ attempt' = attempt + 1
                     /\ UNCHANGED << pc, outcome >>
                ELSE /\ last' = Append(r.events, E(d, attempt))
                     /\ pc' = "returned"
                     /\ outcome' = IF d \in {"skip", "return_true"} THEN "success"
                                   ELSE "failure"
                     /\ UNCHANGED << attempt, waits >>
  /\ UNCHANGED << prog, args, run, onPath, cache, downloaded_ids, policy, exitCode,
                  consulted, prev, exeAtStart, outFile, idx, successful, failed, results >>

(* ------------------------------------------------------------------ *)
(* yt_downloader.py: convert_local_file_to_wav                          *)
(* ------------------------------------------------------------------ *)
\* a conversion that resolves the Transcoder before it looks at its input
LocalConvertResolveFirst(a, onpath, c, out) ==
  { [outcome |-> "failure", consulted |-> r.events,
     events |-> <<E("input_check", 0)>>, cache |-> r.cache, out |-> out] :
      r \in EnsureFfmpegLocal(a.ffmpeg_path, a.auto_download_ffmpeg, onpath, c) }

\* a conversion that runs ffmpeg -y without asking
LocalConvertNoPrompt(a, onpath, c, out) ==
  IF a.local # "file"
    THEN { [outcome |-> "failure", consulted |-> <<>>,
            events |-> <<E("input_check", 0)>>, cache |-> c, out |-> out] }
    ELSE { [outcome |-> IF r.resolved THEN "success" ELSE "failure",
            consulted |-> r.events,
            events |-> IF r.resolved
                         THEN <<E("input_check", 0), E("mkdir", 0), E("transcode", 0)>>
                         ELSE <<E("input_check", 0), E("no_ffmpeg", 0)>>,
            cache |-> r.cache,
            out |-> IF r.resolved THEN "new" ELSE out] :
              r \in EnsureFfmpegLocal(a.ffmpeg_path, a.auto_download_ffmpeg, onpath, c) }

\* input(...).strip().lower() at the overwrite prompt
OverwriteResponse(answer) == Lower(Strip(answer))

\* the whole function: the set of [outcome, consulted, events, cache, out],
\* out being the target .wav when it returns
LocalConvert(a, onpath, c, out) ==
  LET ev0 == <<E("input_check", 0)>>
      Ret(o, cons, evs, cc, f) ==
        [outcome |-> o, consulted |-> cons, events |-> evs, cache |-> cc, out |-> f]
      \* subprocess.run(cmd, check=True): ffmpeg -y writes the target; a run
      \* that fails may have written it in part
      Transcode(r, evs) ==
        LET evt == Append(evs, E("transcode", 0))
        IN  { Ret("success", r.events, evt, r.cache, "new") }
            \cup { Ret("failure", r.events, evt, r.cache, f) : f \in {out, "new"} }
      After(r) ==
        LET ev2 == Append(ev0, E("mkdir", 0))
            ev3 == Append(ev2, E("overwrite_prompt", 0))
        IN  IF ~r.resolved
              THEN { Ret("failure", r.events, Append(ev0, E("no_ffmpeg", 0)), r.cache, out) }
              ELSE \* output_dir.mkdir raises
                   { Ret("raised", r.events, ev2, r.cache, out) }
                   \cup
                   ( IF out # "none"
                       THEN IF OverwriteResponse(a.answer) # <<"y">>
                              THEN { Ret("failure", r.events,
                                         Append(ev3, E("cancelled", 0)), r.cache, out) }
                              ELSE Transcode(r, ev3)
                       ELSE Transcode(r, ev2) )
  IN  IF a.local # "file"
        THEN { Ret("failure", <<>>, ev0, c, out) }
        ELSE UNION { After(r) :
                       r \in EnsureFfmpegLocal(a.ffmpeg_path, a.auto_download_ffmpeg,
                                               onpath, c) }

ConvertLocal ==
  /\ prog = "local" /\ pc = "start"
  /\ \E r \in LocalConvert(args, onPath, cache, outFile) :
       /\ outcome' = r.outcome
       /\ consulted' = r.consulted
       /\ last' = r.events
       /\ cache' = r.cache
       /\ outFile' = r.out
  /\ pc' = "returned"
  /\ UNCHANGED << prog, args, run, onPath, archiveFile, downloaded_ids, attempt, policy,
                  produced, error_msg, exitCode, calls, waits, prev, exeAtStart, idx, successful,
                  failed, results >>

(* ------------------------------------------------------------------ *)
(* yt_downloader.py: download_ffmpeg called on its own                  *)
(* ------------------------------------------------------------------ *)
BootstrapCall ==
  /\ prog = "bootstrap" /\ pc = "start"
  /\ \E d \in download_ffmpeg(cache) :
       /\ outcome' = IF d.ret THEN "success" ELSE "failure"
       /\ consulted' = d.events
       /\ cache' = d.cache
  /\ pc' = "returned"
  /\ UNCHANGED << prog, args, run, onPath, archiveFile, downloaded_ids, attempt, policy,
                  produced, error_msg, exitCode, calls, waits, last, prev, exeAtStart, outFile, idx,
                  successful, failed, results >>

(* ------------------------------------------------------------------ *)
(* yt_downloader.py: tag_audio_metadata called on its own               *)
(* ------------------------------------------------------------------ *)
\* the first event of last names the fault of this call
TagCall ==
  /\ prog = "tag" /\ pc = "start"
  /\ \E f \in TagFaults :
       LET r == tag_audio_metadata(args.tag_format, args.info, f)
       IN  /\ last' = <<E(f, 0)>> \o r.events
           /\ outcome' = IF r.raised THEN "raised" ELSE "returned"
  /\ pc' = "returned"
  /\ UNCHANGED << prog, args, run, onPath, cache, archiveFile, downloaded_ids, attempt,
                  policy, produced, error_msg, exitCode, consulted, calls, waits, prev,
                  exeAtStart, outFile, idx, successful, failed, results >>

(* ------------------------------------------------------------------ *)
(* audio_to_midi.py: main, batch_convert, convert_audio_to_midi         *)
(* ------------------------------------------------------------------ *)
\* the results of convert_audio_to_midi for an input path of kind k:
\* "true", "false", or "raised" when output_dir_path.mkdir raises
ConvertAudioToMidi(k) ==
  IF k # "file" THEN {"false"} ELSE {"true", "false", "raised"}

\* counters that miss the failures
TallySuccessOnly(s, f, ok) == IF ok THEN <<s + 1, f>> ELSE <<s, f>>

\* batch_convert: the counters after one result
Tally(s, f, ok) == IF ok THEN <<s + 1, f>> ELSE <<s, f + 1>>

\* sys.exit of main
MidiExit(f) == IF f = 0 THEN 0 ELSE 1

\* main up to the call of batch_convert: basic-pitch is importable, or is
\* installed on request, or the process exits with 1
MidiStart ==
  /\ prog = "midi" /\ pc = "start"
  /\ \/ /\ pc' = "batch"
        /\ last' = <<E("basic_pitch_ok", 0)>>
        /\ UNCHANGED exitCode
     \/ /\ pc' = "exited"
        /\ last' = <<E("basic_pitch_missing", 0)>>
        /\ exitCode' = 1
  /\ UNCHANGED << prog, args, run, onPath, cache, archiveFile, downloaded_ids, attempt,
                  policy, produced, outcome, error_msg, consulted, calls, waits, prev, exeAtStart, outFile, idx,
                  successful, failed, results >>

\* one iteration of the loop of batch_convert
BatchStep ==
  /\ prog = "midi" /\ pc = "batch" /\ idx < Len(args.audio_files)
  /\ \E r \in ConvertAudioToMidi(args.audio_files[idx + 1]) :
       /\ last' = <<E("convert", idx + 1)>>
       /\ results' = Append(results, r)
       /\ IF r = "raised"
            THEN /\ pc' = "returned"
                 /\ outcome' = "raised"
                 /\ UNCHANGED << idx, successful, failed >>
            ELSE /\ idx' = idx + 1
                 /\ successful' = Tally(successful, failed, r = "true")[1]
                 /\ failed' = Tally(successful, failed, r = "true")[2]
                 /\ UNCHANGED << pc, outcome >>
  /\ UNCHANGED << prog, args, run, onPath, cache, archiveFile, downloaded_ids, attempt,
                  policy, produced, error_msg, exitCode, consulted, calls, waits, prev, exeAtStart, outFile >>

\* return successful, failed
BatchReturn ==
  /\ prog = "midi" /\ pc = "batch" /\ idx = Len(args.audio_files)
  /\ pc' = "returned"
  /\ outcome' = "returned"
  /\ UNCHANGED << prog, args, run, onPath, cache, archiveFile, downloaded_ids, attempt,
                  policy, produced, error_msg, exitCode, consulted, calls, waits, last, prev, exeAtStart, outFile,
                  idx, successful, failed, results >>

(* ------------------------------------------------------------------ *)
(* vid.py: on_download and download_audio                               *)
(* ------------------------------------------------------------------ *)
\* what download_audio does for one URL: it returns the path of the mp3
\* ("path"), returns str(e) ("error_text", or "empty_text" when str(e) is
\* ''), or os.makedirs raises ("raised")
DownloadAudio == {"path", "error_text", "empty_text", "raised"}

\* the message on_download displays for a result of download_audio
GuiMessage(r) == IF r \in {"path", "error_text"} THEN "Converted" ELSE "Failed"

\* one iteration of the loop of on_download
GuiStep ==
  /\ prog = "gui" /\ pc = "start" /\ idx < Len(args.video_urls)
  /\ \E r \in DownloadAudio :
       /\ results' = Append(results, r)
       /\ last' = <<E(GuiMessage(r), idx + 1)>>
  /\ idx' = idx + 1
  /\ UNCHANGED << prog, pc, args, run, onPath, cache, archiveFile, downloaded_ids, attempt,
                  policy, produced, outcome, error_msg, exitCode, consulted, calls, waits,
                  prev, exeAtStart, outFile, successful, failed >>

\* the loop is over and the handler returns
GuiReturn ==
  /\ prog = "gui" /\ pc = "start" /\ idx = Len(args.video_urls)
  /\ pc' = "returned"
  /\ outcome' = "returned"
  /\ UNCHANGED << prog, args, run, onPath, cache, archiveFile, downloaded_ids, attempt,
                  policy, produced, error_msg, exitCode, consulted, calls, waits, last, prev, exeAtStart, outFile,
                  idx, successful, failed, results >>

(* ------------------------------------------------------------------ *)
(* Process exit and the next run                                        *)
(* ------------------------------------------------------------------ *)
Exit ==
  /\ pc = "returned" /\ prog \in {"download", "local", "midi"}
  /\ pc' = "exited"
  /\ exitCode' = IF prog = "midi" /\ outcome # "raised" THEN MidiExit(failed)
                 ELSE MainExit(args, outcome)
  /\ UNCHANGED << prog, args, run, onPath, cache, archiveFile, downloaded_ids, attempt,
                  policy, produced, outcome, error_msg, consulted, calls, waits, last, prev, exeAtStart, outFile,
                  idx, successful, failed, results >>

\* the same command line is run again (download_ffmpeg: called again) on
\* the disk the last run left
Rerun ==
  /\ \/ pc = "exited" /\ prog \in {"download", "local"}
     \/ pc = "returned" /\ prog = "bootstrap"
  /\ run < MaxRuns
  /\ run' = run + 1
  /\ prev' = [outcome |-> outcome, produced |-> produced,
              downloaded |-> Has(consulted, "net_download"),
              appended |-> prev.appended \cup
                             (IF Has(last, "append") THEN {ProviderId(args.url)} ELSE {})]
  /\ exeAtStart' = cache.exe
  /\ pc' = "start"
  /\ downloaded_ids' = {}
  /\ attempt' = 0
  /\ policy' = "none"
  /\ produced' = FALSE
  /\ outcome' = "none"
  /\ error_msg' = NoneVal
  /\ exitCode' = -1
  /\ consulted' = <<>>
  /\ calls' = 0
  /\ waits' = <<>>
  /\ last' = <<>>
  /\ UNCHANGED << prog, args, onPath, cache, archiveFile, outFile, idx, successful,
                  failed, results >>

Next ==
  \/ StartJob
  \/ Attempt
  \/ ConvertLocal
  \/ BootstrapCall
  \/ TagCall
  \/ MidiStart
  \/ BatchStep
  \/ BatchReturn
  \/ GuiStep
  \/ GuiReturn
  \/ Exit
  \/ Rerun

Spec == Init /\ [][Next]_vars

(* ------------------------------------------------------------------ *)
(* One call of download_youtube_video, run to its end                   *)
(* ------------------------------------------------------------------ *)
JobInit == Init /\ prog = "download"

JobNext == StartJob \/ Attempt

\* a call that is started goes on: extract_info returns or raises, and
\* time.sleep returns
JobSpec == JobInit /\ [][JobNext]_vars /\ WF_vars(StartJob) /\ WF_vars(Attempt)

(* ------------------------------------------------------------------ *)
(* Properties                                                           *)
(* ------------------------------------------------------------------ *)
\* the parameters download_youtube_video receives in this run
P == JobParams(args)

\* download_youtube_video has returned or raised
JobDone == prog = "download" /\ pc \in {"returned", "exited"}

\* the event that closed the latest step
FinalEvent == IF last = <<>> THEN "none" ELSE last[Len(last)].ev

\* C1: a download job with an archive path whose URL-derived identifier is in
\* the loaded archive set returns success, produces no file and never calls
\* the provider, whatever the format and whether or not ffmpeg resolves.
C1_ArchivedItemIsSkipped ==
  ( /\ JobDone
    /\ P.download_archive # NoneVal
    /\ VideoIdOf[args.url] # NoneVal
    /\ VideoIdOf[args.url] \in downloaded_ids )
  => (outcome = "success" /\ ~produced /\ calls = 0)

\* C2: when every failure of an item is classified blocking, extract_info is
\* called once per attempt up to the first success and three times when none
\* succeeds; the sleeps are 2 after attempt 1 and 4 after attempt 2, and
\* there is none after attempt 3.
C2_TransientRetries ==
  (prog = "download" /\ attempt >= 1) =>
    /\ attempt <= 3
    /\ waits = SubSeq(<<2, 4>>, 1, attempt - 1)
    /\ (pc = "loop" => calls = attempt - 1)
    /\ (JobDone /\ FinalEvent = "return_true" => calls = attempt)
    /\ (JobDone /\ FinalEvent = "exhausted" => calls = 3 /\ waits = <<2, 4>>)

\* the third attempt succeeded after two blocking failures
C2_Witness ==
  /\ JobDone /\ FinalEvent = "return_true"
  /\ calls = 3 /\ waits = <<2, 4>>

\* C3: a failure that is not classified blocking ends the job in failure in
\* the same step, with no sleep and no later call of extract_info, on any
\* attempt; a blocking failure on attempt 3 ends it in failure as well, and
\* extract_info is never called a fourth time.
C3_NoRetryWhenNotTransient ==
  [][ /\ ( /\ prog = "download" /\ pc = "loop"
           /\ calls' = calls + 1
           /\ error_msg' # NoneVal
           /\ (error_msg' \notin BlockingTexts \/ attempt = 3) )
         => (pc' = "returned" /\ outcome' = "failure" /\ waits' = waits)
      /\ (JobDone /\ run' = run) => (calls' = calls /\ waits' = waits)
      /\ calls' <= 3
    ]_vars

\* the second attempt failed with an error that is not blocking
C3_Witness ==
  /\ JobDone /\ outcome = "failure"
  /\ error_msg = ErrOther /\ attempt = 2
  /\ calls = 2 /\ waits = <<2>>

\* C4: for wav or mp3, when the Transcoder check went past check_ffmpeg and
\* found neither a cached executable nor a bootstrapped one, the job returns
\* False and extract_info is never called.
C4_UnresolvedTranscoderFails ==
  ( /\ prog = "download"
    /\ P.audio_format \in {"wav", "mp3"}
    /\ Has(consulted, "local_cache")
    /\ ~check_ffmpeg(P.ffmpeg_path, onPath).ok
    /\ ~Has(consulted, "cache_found")
    /\ ~Has(consulted, "bootstrap_path") )
  => (JobDone /\ outcome = "failure" /\ calls = 0 /\ ~produced)

\* an mp3 job whose bootstrap was tried and failed
C4_Witness ==
  /\ JobDone /\ P.audio_format = "mp3"
  /\ Has(consulted, "prompt") /\ Has(consulted, "bootstrap_none")
  /\ outcome = "failure" /\ calls = 0

\* C5: with the same URL and archive path, a run that follows a run which
\* fetched and returned True skips the item without calling extract_info:
\* the line a run appends to the archive is the identifier the pre-check
\* derives from the URL, for every shape of URL.
C5_RerunSkips ==
  /\ (prog = "download" /\ Has(last, "append"))
       => archiveFile.lines[Len(archiveFile.lines)] = VideoIdOf[args.url]
  /\ ( /\ JobDone /\ run >= 2
       /\ P.download_archive # NoneVal
       /\ prev.outcome = "success" /\ prev.produced )
       => (outcome = "success" /\ calls = 0)

\* C6: once extract_info has returned for wav or mp3, a failure of the
\* tagging step, the computation of the file path included, leaves the
\* job returning True with the file in place.
C6_TaggingFailureKeepsSuccess ==
  ( /\ JobDone
    /\ is_tagged_format(P.audio_format)
    /\ \/ Has(last, "path_error")
       \/ Has(last, "tag_warn") /\ ~Has(last, "append_failed") )
  => (outcome = "success" /\ produced)

\* the results so far that are r
NumResults(r) == Cardinality({ k \in 1..Len(results) : results[k] = r })

AllSucceeded ==
  CASE prog \in {"download", "local"} -> outcome = "success"
    [] prog = "midi" ->
         /\ Len(results) = Len(args.audio_files)
         /\ \A k \in 1..Len(results) : results[k] = "true"
    [] OTHER -> FALSE

\* C8: the process exits with 0 exactly when every item of the run ended in
\* success, a skipped item counting as success, and with a non-zero status
\* otherwise.
C8_ExitCode ==
  pc = "exited" =>
    /\ exitCode \in {0, 1}
    /\ (exitCode = 0 <=> AllSucceeded)

\* a job that skipped its item and exited with 0
C8_Witness ==
  /\ prog = "download" /\ pc = "exited"
  /\ FinalEvent = "skip" /\ exitCode = 0

\* C9: in the download job and in the local conversion the sources are
\* consulted in the order explicit path, executable search path, local
\* cache, bootstrap: the local cache is consulted only after the search
\* path, also when an explicit path was supplied and did not resolve.
C9_ResolutionOrder ==
  prog \in {"download", "local"} =>
    /\ Has(consulted, "local_cache") =>
         /\ Has(consulted, "search_path")
         /\ FirstPos(consulted, "search_path") < FirstPos(consulted, "local_cache")
    /\ Has(consulted, "bootstrap") =>
         /\ Has(consulted, "local_cache")
         /\ FirstPos(consulted, "local_cache") < FirstPos(consulted, "bootstrap")
    /\ (Has(consulted, "explicit") /\ Has(consulted, "search_path")) =>
         FirstPos(consulted, "explicit") < FirstPos(consulted, "search_path")

\* C10 as stated: download_ffmpeg does not download when ffmpeg.exe is in
\* the cache, and of two consecutive resolutions at most one downloads.
C10_AtMostOneDownload ==
  /\ exeAtStart => ~Has(consulted, "net_download")
  /\ (run >= 2 /\ prev.downloaded) => ~Has(consulted, "net_download")

\* C10: a resolution that starts with ffmpeg.exe in the cache downloads
\* nothing, and download_ffmpeg called then returns the cached location; so
\* of two consecutive resolutions at most one downloads when the first left
\* ffmpeg.exe in the cache.
C10_NoDownloadWhenCached ==
  exeAtStart =>
    /\ ~Has(consulted, "net_download")
    /\ Has(consulted, "bootstrap") => Has(consulted, "bootstrap_path")

\* download_ffmpeg called again after the call that downloaded ffmpeg.exe
C10_Witness ==
  /\ prog = "bootstrap" /\ run >= 2
  /\ prev.downloaded /\ exeAtStart
  /\ Has(consulted, "bootstrap") /\ Has(consulted, "bootstrap_path")

\* C11: whenever download_ffmpeg ends without a usable tool (the download
\* or the extraction failed, or no extracted folder was found) it returns
\* None and ffmpeg-release-essentials.zip does not exist when it returns.
C11_FailedBootstrapRemovesZip ==
  Has(consulted, "bootstrap_none") => ~cache.zip

\* the archive load of this run raised
LoadRaised ==
  prog = "download" /\ pc \in {"returned", "exited"}
    /\ outcome = "raised" /\ last = <<E("archive_load", 0)>>

\* the latest step is the one that ran the archive load (or skipped it)
AfterStartJob ==
  prog = "download" /\ pc # "start" /\ calls = 0 /\ FinalEvent # "skip"

\* C12: the archive load yields the empty set, without error, when the file
\* does not exist, and for an existing file exactly the set of the trimmed
\* lines that are not blank: the empty string is never in the loaded set.
C12_LoadedSet ==
  (AfterStartJob /\ ~LoadRaised) =>
    /\ (P.download_archive = NoneVal \/ ~archiveFile.exists) => downloaded_ids = {}
    /\ (P.download_archive # NoneVal /\ archiveFile.exists) =>
         downloaded_ids =
           { Strip(archiveFile.lines[k]) : k \in 1..Len(archiveFile.lines) } \ { <<>> }
    /\ <<>> \notin downloaded_ids

\* C13: an archive file that cannot be read or written never makes the
\* item fail: when the load raised, or the append after a fetch that
\* succeeded raised, the job still ends in success.
C13_ArchiveErrorsNotFatal ==
  (JobDone /\ (LoadRaised \/ Has(last, "append_failed"))) => outcome = "success"

\* C14: every error raised while a job runs becomes an outcome the job
\* returns; no exception leaves download_youtube_video or batch_convert.
C14_NoExceptionEscapes ==
  prog \in {"download", "midi"} => outcome # "raised"

\* the policy of highest priority among the selectors on the command line
RequestedPolicy ==
  IF args.list_formats THEN "list"
  ELSE IF args.best_native THEN "best_native"
  ELSE IF args.mp3 THEN "mp3"
  ELSE IF args.wav THEN "wav"
  ELSE "video"

\* C15: the format policy is chosen by the priority list-formats, best
\* native audio, mp3, wav, else video: the one policy applied is the
\* highest-priority one requested, so --mp3 together with --wav gives mp3.
C15_FormatPriority ==
  (prog = "download" /\ policy # "none") => policy = RequestedPolicy

\* C16: whatever fields of info the provider leaves absent (title,
\* uploader or artist, album, thumbnail, id, ext), a job whose extract_info
\* returned ends in success, the archive append not failing.
C16_AbsentFieldsKeepSuccess ==
  (JobDone /\ Has(last, "fetched") /\ ~Has(last, "append_failed"))
    => outcome = "success"

\* C17: in the attempt whose extract_info returned, with an archive path,
\* the job appends exactly one line, info['id'], to the archive file when
\* info has an id, after the tagging step, and appends nothing and returns
\* True when it has none.
C17_AppendsOneLine ==
  [][ ( /\ prog = "download" /\ pc = "loop"
        /\ P.download_archive # NoneVal
        /\ Has(last', "fetched") )
      => IF Has(last', "no_id")
           THEN archiveFile' = archiveFile /\ outcome' = "success"
           ELSE /\ archiveFile'.exists
                /\ archiveFile'.lines = Append(archiveFile.lines, ProviderId(args.url))
                /\ Count(last', "append") = 1
                /\ Has(last', "tag") =>
                     FirstPos(last', "tag") < FirstPos(last', "append")
    ]_vars

\* C18: the line an item appends is in the archive file when the item
\* completes, and every later job with the same archive path that loads
\* the file has the identifiers appended by the earlier items in the set
\* its membership check reads.
C18_AppendReachesFile ==
  /\ (JobDone /\ outcome = "success" /\ Has(last, "append")) =>
       /\ archiveFile.exists
       /\ archiveFile.lines # <<>>
       /\ archiveFile.lines[Len(archiveFile.lines)] = ProviderId(args.url)
  /\ (prog = "download" /\ pc # "start" /\ ~LoadRaised) =>
       prev.appended \subseteq downloaded_ids

\* a later job loaded the identifier an earlier job appended
C18_Witness ==
  /\ prog = "download" /\ run >= 2 /\ pc = "loop"
  /\ prev.appended = {IdPlaylist}
  /\ IdPlaylist \in downloaded_ids

\* C20: tag_audio_metadata never raises; a failure to open or save the
\* tags becomes a warning; a failure of the cover art leaves the saved text
\* tags in place; wav gets no cover art; and for a format other than mp3
\* or wav nothing is written.
C20_TaggerNeverRaises ==
  /\ (prog = "tag" /\ pc = "returned") =>
       /\ outcome = "returned"
       /\ (args.tag_format \in {"mp3", "wav"} /\ last[1].ev \in {"open", "save"})
            => Has(last, "tag_warn")
       /\ Has(last, "cover_failed") =>
            /\ Has(last, "text_saved") /\ ~Has(last, "tag_warn")
            /\ args.info.title => Has(last, "text_title")
            /\ args.info.uploader => Has(last, "text_artist")
            /\ args.info.album => Has(last, "text_album")
       /\ args.tag_format = "wav" =>
            ~Has(last, "cover_saved") /\ ~Has(last, "cover_failed")
       /\ args.tag_format \notin {"mp3", "wav"} => Len(last) = 1
  /\ prog = "download" => ~Has(last, "tag_raised")

\* an mp3 whose cover art failed after title and artist were saved
C20_Witness ==
  /\ prog = "tag" /\ pc = "returned" /\ args.tag_format = "mp3"
  /\ Has(last, "cover_failed")
  /\ Has(last, "text_title") /\ Has(last, "text_artist") /\ ~Has(last, "text_album")

\* C19: every job terminates: from its start it reaches its return after
\* at most 3 calls of extract_info and at most 2 sleeps, and once it has
\* returned it makes no further call, sleep, tag or archive write.
C19_JobTerminates ==
  /\ [](calls <= 3 /\ Len(waits) <= 2)
  /\ <>(pc = "returned")
  /\ [][ (pc = "returned" /\ run' = run) =>
           /\ calls' = calls /\ waits' = waits
           /\ archiveFile' = archiveFile /\ last' = last ]_vars

\* a job that returned after three calls and two sleeps
C19_Witness ==
  /\ prog = "download" /\ pc = "returned"
  /\ calls = 3 /\ Len(waits) = 2

\* the latest attempt went on to the archive update: it appended, found no
\* id to append, failed to append, or had no archive path and returned True
ArchiveStepReached ==
  IF P.download_archive # NoneVal
    THEN Has(last, "append") \/ Has(last, "no_id") \/ Has(last, "append_failed")
    ELSE FinalEvent = "return_true"

\* C21: the tagging step is entered only after extract_info returned an info
\* for a job whose audio_format is mp3 or wav; a job whose extract_info
\* returned and that did not enter the tagging step goes on to the archive
\* update.
C21_TagOnlyWhenApplicable ==
  (prog = "download" /\ Has(last, "fetched")) =>
    /\ Has(last, "tag") =>
         (is_tagged_format(P.audio_format) /\ FirstPos(last, "fetched") < FirstPos(last, "tag"))
    /\ ~Has(last, "tag") => ArchiveStepReached

\* C22: the archive file is a set: no identifier stands on more than one
\* line of it, whatever jobs ran against it.
C22_ArchiveIsSet ==
  \A i, j \in 1..Len(archiveFile.lines) :
    ( /\ Strip(archiveFile.lines[i]) # <<>>
      /\ Strip(archiveFile.lines[i]) = Strip(archiveFile.lines[j]) ) => i = j

\* the events of a conversion that went past the validation of its input
PastValidation ==
  {"no_ffmpeg", "mkdir", "overwrite_prompt", "cancelled", "transcode"}

\* C23: a local conversion whose input path is missing or is not a regular
\* file returns failure with nothing consulted to resolve the Transcoder, no
\* bootstrap, no output directory and no transcode, the cache left as it was;
\* convert_audio_to_midi returns False for such a path and the batch goes on.
C23_InvalidInputFailsFirst ==
  [][ /\ ( prog = "local" /\ pc = "start" /\ args.local # "file" ) =>
          /\ pc' = "returned" /\ outcome' = "failure"
          /\ consulted' = <<>>
          /\ cache' = cache
          /\ \A e \in PastValidation : ~Has(last', e)
      /\ ( /\ prog = "midi" /\ pc = "batch" /\ idx < Len(args.audio_files)
           /\ args.audio_files[idx + 1] # "file" ) =>
          /\ results' = Append(results, "false")
          /\ failed' = failed + 1 /\ successful' = successful
          /\ idx' = idx + 1 /\ pc' = "batch" ]_vars

\* a conversion of a path that is a directory has returned
C23_Witness ==
  /\ prog = "local" /\ pc = "returned" /\ args.local = "dir"
  /\ last = <<E("input_check", 0)>> /\ outcome = "failure"

\* C24: once extract_info has returned for an item it is not called again
\* for it: the attempt in which it returned ends the job without a sleep,
\* also when a later step of that attempt raises, and no later step of the
\* same run calls extract_info or sleeps.
C24_NoRefetchAfterFetch ==
  [][ run' = run =>
        /\ (prog = "download" /\ pc = "loop" /\ produced') =>
             (pc' = "returned" /\ waits' = waits)
        /\ produced => (calls' = calls /\ waits' = waits) ]_vars

\* C25: a job returns failure for an unresolved Transcoder only when the
\* format policy it applies needs the Transcoder (wav or mp3): never when the
\* policy is list-formats, best native audio or video, also with --mp3 or
\* --wav given beside --best-native.
C25_TranscoderOnlyWhenNeeded ==
  (prog = "download" /\ Has(last, "no_ffmpeg")) => FormatPolicy(P) \in {"wav", "mp3"}

\* C26: the archive file is append-only and written only on success: a step
\* of a job that changes the file is the one that returns True, it keeps the
\* previous lines as a prefix and adds one line, so a job that fails or
\* skips leaves the file as it was and no job adds more than one line; a job
\* without archive path neither loads nor creates a file.
C26_ArchiveAppendOnly ==
  [][ (prog = "download" /\ run' = run) =>
        /\ archiveFile' # archiveFile =>
             /\ pc = "loop" /\ pc' = "returned"
             /\ outcome' = "success" /\ last'[Len(last')].ev = "return_true"
             /\ archiveFile'.exists
             /\ Len(archiveFile'.lines) = Len(archiveFile.lines) + 1
             /\ SubSeq(archiveFile'.lines, 1, Len(archiveFile.lines)) = archiveFile.lines
        /\ P.download_archive = NoneVal =>
             /\ archiveFile' = archiveFile
             /\ ~Has(last', "archive_load") /\ ~Has(last', "append")
             /\ downloaded_ids' = {} ]_vars

\* a job has added a line to an archive file that held lines before
C26_Witness ==
  /\ prog = "download" /\ pc = "returned" /\ outcome = "success"
  /\ Has(last, "append") /\ Len(archiveFile.lines) >= 2

\* C27: the archive pre-check skips on the first attempt or never: a job
\* that returns by the skip has called extract_info zero times and has not
\* slept.
C27_SkipOnlyOnFirstAttempt ==
  (prog = "download" /\ FinalEvent = "skip") =>
    /\ attempt = 1 /\ calls = 0 /\ waits = <<>>
    /\ outcome = "success" /\ ~produced

\* a job has returned by the skip
C27_Witness ==
  /\ prog = "download" /\ pc = "returned" /\ FinalEvent = "skip"
  /\ P.download_archive # NoneVal /\ VideoIdOf[args.url] \in downloaded_ids

\* C28: in the loop of on_download the message of an item is the success
\* message exactly when download_audio produced the mp3 file for it: an item
\* whose download or conversion raised gets the failure message.
C28_GuiReportsFailures ==
  (prog = "gui" /\ results # <<>>) =>
    (last[1].ev = "Converted" <=> results[Len(results)] = "path")

\* C29: whenever download_ffmpeg has returned a location, ffmpeg.exe exists
\* there: get_local_ffmpeg_path finds it from then on and a later call of
\* download_ffmpeg returns without downloading.
C29_BootstrapLeavesExecutable ==
  Has(consulted, "bootstrap_path") =>
    (get_local_ffmpeg_path(cache) /\ already_downloaded(cache))

\* what a local conversion that finds its target .wav and is not to
\* overwrite it does in its step: it does not run ffmpeg, leaves the file
\* as it is, does not return True, and once it has asked returns False
KeepsTarget ==
  /\ ~Has(last', "transcode")
  /\ outFile' = outFile
  /\ outcome' # "success"
  /\ Has(last', "overwrite_prompt") =>
       (outcome' = "failure" /\ last'[Len(last')].ev = "cancelled")

\* C30 as stated: when the target .wav exists and the line typed at the
\* prompt is anything other than 'y', the conversion returns failure, ffmpeg
\* is not run and the file is unchanged.
C30_NoOverwriteUnlessY ==
  [][ ( /\ prog = "local" /\ pc = "start"
        /\ outFile # "none" /\ args.answer # <<"y">> ) => KeepsTarget ]_vars

\* C30: when the target .wav exists and the line typed at the prompt,
\* trimmed and lower-cased, is anything other than 'y', the conversion
\* returns failure, ffmpeg is not run and the file is unchanged; ffmpeg
\* writes over an existing target only after the prompt.
C30_NoOverwriteWithoutConfirmation ==
  [][ (prog = "local" /\ pc = "start" /\ outFile # "none") =>
        /\ OverwriteResponse(args.answer) # <<"y">> => KeepsTarget
        /\ Has(last', "transcode") =>
             /\ Has(last', "overwrite_prompt")
             /\ FirstPos(last', "overwrite_prompt") < FirstPos(last', "transcode") ]_vars

\* a conversion was cancelled at the prompt and the old target is in place
C30_Witness ==
  /\ prog = "local" /\ pc = "returned" /\ outcome = "failure"
  /\ FinalEvent = "cancelled" /\ outFile = "old"
  /\ OverwriteResponse(args.answer) # <<"y">>

====
